---- MODULE Spec2Model ----
(***************************************************************************)
(* Wumpus World: the turn controller (Controller), the agent (Agent), its  *)
(* belief grid (Knowledge_base) and the simulator (Environment).           *)
(*                                                                         *)
(* Locations are records [row, col]; the environment grid is indexed from  *)
(* 0 (grid[row-1][col-1]) and the belief grid by the location itself,      *)
(* as in the source.  A Python exception that leaves a method is recorded  *)
(* in exc; the program does not go on after one.                           *)
(***************************************************************************)
EXTENDS Integers, Sequences, FiniteSets, TLC

VARIABLES
    env_grid,        \* Environment.grid: [0..3 -> [0..3 -> Cell]]
    score,           \* Environment.score
    is_backtracking, \* Agent.is_backtracking
    is_alive,        \* Agent.is_alive
    location,        \* Agent.location
    direction,       \* Agent.direction
    has_arrow,       \* Agent.has_arrow
    has_gold,        \* Agent.has_gold
    kb,              \* Agent.kb.grid: [0..5 -> [0..5 -> Knowledge_Cell]]
    path_stack,      \* Agent.path_stack
    is_bump,         \* Controller.is_bump
    is_scream,       \* Controller.is_scream
    is_game_over,    \* Controller.is_game_over
    total_steps,     \* Controller.total_steps
    messages,        \* Controller.messages
    op,              \* the method called last ("init" before any call)
    branch,          \* the branch that call took
    arg,             \* the argument of that call (None when it takes none)
    ret,             \* the value it returned (None when it raised or returns nothing)
    exc              \* the exception that left it (None when it returned)

envVars == <<env_grid, score>>
agentVars == <<is_backtracking, is_alive, location, direction, has_arrow, has_gold, kb, path_stack>>
ctlVars == <<is_bump, is_scream, is_game_over, total_steps, messages>>
progVars == <<envVars, agentVars, ctlVars>>
callVars == <<op, branch, arg, ret, exc>>
vars == <<progVars, callVars>>

None == "None"

(***************************************************************************)
(* Bounds of the model and constants of the program.                       *)
(***************************************************************************)
\* the path stacks of the initial states hold at most MaxStack entries
MaxStack == 2
\* the combined risk of a cell of the initial belief grids is at most MaxRisk
MaxRisk == 3
\* hazards and gold of the initial states lie in rows and columns 1..Reach
Reach == 2

MaxTurns == 9

env_size == 4
kb_size == 6
StepLimit == 200

(***************************************************************************)
(* Lists: s[-1], s[:-1] and the set of the elements.                       *)
(***************************************************************************)
Last(s) == s[Len(s)]

Front(s) == SubSeq(s, 1, Len(s) - 1)

Range(s) == {s[i] : i \in DOMAIN s}

(***************************************************************************)
(* Spatial primitives.                                                     *)
(***************************************************************************)
Location(r, c) == [row |-> r, col |-> c]

\* list(Direction): the members in definition order
Direction == <<"NORTH", "EAST", "SOUTH", "WEST">>

\* list(Direction).index(d), counted from 1
DirectionIndex(d) == CHOOSE i \in DOMAIN Direction : Direction[i] = d

delta(d) ==
    CASE d = "NORTH" -> <<-1, 0>>
      [] d = "EAST"  -> <<0, 1>>
      [] d = "SOUTH" -> <<1, 0>>
      [] d = "WEST"  -> <<0, -1>>

move(loc, d) == Location(loc.row + delta(d)[1], loc.col + delta(d)[2])

get_adjacent(loc) == [i \in 1..4 |-> move(loc, Direction[i])]

Origin == Location(1, 1)

(***************************************************************************)
(* Percept: a frozen dataclass with the four fields stench, breeze,        *)
(* glitter and scream.  Its constructor raises TypeError on any other      *)
(* keyword, and reading any other attribute raises AttributeError.         *)
(***************************************************************************)
PerceptFields == {"stench", "breeze", "glitter", "scream"}

Percept(kwargs) ==
    IF DOMAIN kwargs \subseteq PerceptFields
    THEN [exc |-> None, value |-> kwargs]
    ELSE [exc |-> "TypeError", value |-> None]

HasAttr(obj, name) == name \in DOMAIN obj

(***************************************************************************)
(* Environment.                                                            *)
(***************************************************************************)
\* Cell(False, False, False, False, False); has_wall is never read or written
Cell == [has_pit |-> FALSE, has_wumpus |-> FALSE, has_gold |-> FALSE, has_agent |-> FALSE]

check_for_death(grid, agent_location) ==
    LET cell == grid[agent_location.row - 1][agent_location.col - 1]
    IN  cell.has_wumpus \/ cell.has_pit

is_valid_location(loc) ==
    /\ 0 <= loc.row - 1 /\ loc.row - 1 < env_size
    /\ 0 <= loc.col - 1 /\ loc.col - 1 < env_size

SetAgent(grid, loc, b) ==
    IF is_valid_location(loc)
    THEN [grid EXCEPT ![loc.row - 1][loc.col - 1].has_agent = b]
    ELSE grid

update_agent_position_in_grid(grid, old_location, new_location) ==
    SetAgent(SetAgent(grid, old_location, FALSE), new_location, TRUE)

\* get_percept, lines 84-96: the cues collected at a location
sense(grid, loc) ==
    LET row == loc.row - 1
        col == loc.col - 1
        adjacent == {rc \in {<<row, col + 1>>, <<row + 1, col>>, <<row, col - 1>>, <<row - 1, col>>} :
                        /\ 0 <= rc[1] /\ rc[1] < env_size
                        /\ 0 <= rc[2] /\ rc[2] < env_size}
    IN  [stench |-> \E rc \in adjacent : grid[rc[1]][rc[2]].has_wumpus,
         breeze |-> \E rc \in adjacent : grid[rc[1]][rc[2]].has_pit,
         glitter |-> grid[row][col].has_gold]

\* The keyword arguments get_percept hands to Percept(...): bump is among them.
get_percept(grid, loc, bump, scream) ==
    LET cues == sense(grid, loc)
    IN  Percept([stench |-> cues.stench, breeze |-> cues.breeze, glitter |-> cues.glitter,
                 scream |-> scream, bump |-> bump])

\* the members of the enum Action
Action == {"FORWARD", "TURN_LEFT", "TURN_RIGHT", "SHOOT_ARROW", "GRAB_GOLD", "CLIMB"}

\* faulty variant: a turn to the left or right costs nothing
perform_action_free_turns(grid, action, agent_location, agent_direction) ==
    LET old_row == agent_location.row - 1
        old_col == agent_location.col - 1
        new_location == move(agent_location, agent_direction)
        moved == SetAgent(SetAgent(grid, agent_location, FALSE), new_location, TRUE)
        result(ok, msg, d, g) == [success |-> ok, message |-> msg, score_delta |-> d, grid |-> g]
    IN  IF action = "FORWARD"
        THEN IF ~is_valid_location(new_location) THEN result(FALSE, "bump", -1, grid)
             ELSE IF moved[new_location.row - 1][new_location.col - 1].has_wumpus
             THEN result(TRUE, "wumpus", -1 - 1000, moved)
             ELSE IF moved[new_location.row - 1][new_location.col - 1].has_pit
             THEN result(TRUE, "pit", -1 - 1000, moved)
             ELSE result(TRUE, None, -1, moved)
        ELSE IF action = "GRAB_GOLD"
        THEN IF grid[old_row][old_col].has_gold
             THEN result(TRUE, "gold", -1 + 1000,
                         [grid EXCEPT ![old_row][old_col].has_gold = FALSE])
             ELSE result(FALSE, "no_gold", -1, grid)
        ELSE IF action = "CLIMB"
        THEN IF <<old_row, old_col>> = <<0, 0>> THEN result(TRUE, "escaped", -1, grid)
             ELSE result(FALSE, "not_at_start", -1, grid)
        ELSE result(TRUE, None, 0, grid)

\* perform_action: whether the action succeeded, the message, the change of
\* the score and the grid it leaves
perform_action(grid, action, agent_location, agent_direction) ==
    LET old_row == agent_location.row - 1
        old_col == agent_location.col - 1
        new_location == move(agent_location, agent_direction)
        moved == SetAgent(SetAgent(grid, agent_location, FALSE), new_location, TRUE)
        ahead(k) == <<old_row + k * delta(agent_direction)[1],
                      old_col + k * delta(agent_direction)[2]>>
        hit == {k \in 1..env_size :
                   /\ ahead(k)[1] \in 0..(env_size - 1) /\ ahead(k)[2] \in 0..(env_size - 1)
                   /\ grid[ahead(k)[1]][ahead(k)[2]].has_wumpus}
        result(ok, msg, d, g) == [success |-> ok, message |-> msg, score_delta |-> d, grid |-> g]
    IN  IF action = "FORWARD"
        THEN IF ~is_valid_location(new_location) THEN result(FALSE, "bump", -1, grid)
             ELSE IF moved[new_location.row - 1][new_location.col - 1].has_wumpus
             THEN result(TRUE, "wumpus", -1 - 1000, moved)
             ELSE IF moved[new_location.row - 1][new_location.col - 1].has_pit
             THEN result(TRUE, "pit", -1 - 1000, moved)
             ELSE result(TRUE, None, -1, moved)
        ELSE IF action = "SHOOT_ARROW"
        THEN IF hit = {} THEN result(TRUE, "missed", -1 - 10, grid)
             ELSE LET first == ahead(CHOOSE k \in hit : \A j \in hit : k <= j)
                  IN  result(TRUE, "killed", -1 - 10,
                             [grid EXCEPT ![first[1]][first[2]].has_wumpus = FALSE])
        ELSE IF action = "GRAB_GOLD"
        THEN IF grid[old_row][old_col].has_gold
             THEN result(TRUE, "gold", -1 + 1000,
                         [grid EXCEPT ![old_row][old_col].has_gold = FALSE])
             ELSE result(FALSE, "no_gold", -1, grid)
        ELSE IF action = "CLIMB"
        THEN IF <<old_row, old_col>> = <<0, 0>> THEN result(TRUE, "escaped", -1, grid)
             ELSE result(FALSE, "not_at_start", -1, grid)
        ELSE result(TRUE, None, -1, grid)

(***************************************************************************)
(* Knowledge_base.                                                         *)
(***************************************************************************)
Knowledge_Cell ==
    [visited |-> FALSE, possible_wumpus |-> 0, possible_pit |-> 0,
     no_pit_for_sure |-> FALSE, no_wumpus_for_sure |-> FALSE,
     safe |-> FALSE, unsafe |-> FALSE, wall |-> FALSE]

\* Knowledge_base.__post_init__
NewKnowledgeBase == [r \in 0..(kb_size - 1) |-> [c \in 0..(kb_size - 1) |-> Knowledge_Cell]]

\* faulty variant: the cell of the death is left unmarked
mark_unsafe_keeps(grid, loc) == grid

mark_unsafe(grid, loc) == [grid EXCEPT ![loc.row][loc.col].unsafe = TRUE]

\* the key of the sort: the combined risk of a cell
risk(grid, loc) == grid[loc.row][loc.col].possible_wumpus + grid[loc.row][loc.col].possible_pit

\* faulty variant: the filter forgets the unsafe flag
is_valid_loc_ignores_unsafe(grid, adj) ==
    /\ ~grid[adj.row][adj.col].wall
    /\ ~grid[adj.row][adj.col].visited

\* get_adjacent_cells, lines 109-111: the filter of the comprehension
is_valid_loc(grid, adj) ==
    /\ ~grid[adj.row][adj.col].wall
    /\ ~grid[adj.row][adj.col].visited
    /\ ~grid[adj.row][adj.col].unsafe

\* faulty variant: an unstable sort that puts x before its equals
insert_before_ties(grid, t, x) ==
    LET k == Cardinality({i \in DOMAIN t : risk(grid, t[i]) < risk(grid, x)})
    IN  SubSeq(t, 1, k) \o <<x>> \o SubSeq(t, k + 1, Len(t))

\* sorted() is stable: x goes behind every element whose key is not larger
insert_sorted(grid, t, x) ==
    LET k == Cardinality({i \in DOMAIN t : risk(grid, t[i]) <= risk(grid, x)})
    IN  SubSeq(t, 1, k) \o <<x>> \o SubSeq(t, k + 1, Len(t))

RECURSIVE sorted(_, _)
sorted(grid, s) ==
    IF s = <<>> THEN <<>>
    ELSE insert_sorted(grid, sorted(grid, Front(s)), Last(s))

get_adjacent_cells(grid, loc) ==
    LET adj_loc == get_adjacent(loc)
        keep(adj) == is_valid_loc(grid, adj)
        valid_loc == SelectSeq(adj_loc, keep)
    IN  sorted(grid, valid_loc)

\* faulty variant: the counters of the cell stepped on are left as they were
mark_current_keeps_risk(grid, loc) ==
    [grid EXCEPT ![loc.row][loc.col].visited = TRUE, ![loc.row][loc.col].safe = TRUE]

\* _mark_current_as_visited_and_safe
mark_current_as_visited_and_safe(grid, loc) ==
    [grid EXCEPT ![loc.row][loc.col].visited = TRUE,
                 ![loc.row][loc.col].safe = TRUE,
                 ![loc.row][loc.col].possible_pit = 0,
                 ![loc.row][loc.col].possible_wumpus = 0]

\* faulty variant: the filter forgets the safe flag
get_valid_adjacent_cells_keeps_safe(grid, loc) ==
    LET keep(l) == /\ ~grid[l.row][l.col].visited
                   /\ ~grid[l.row][l.col].wall
    IN  SelectSeq(get_adjacent(loc), keep)

\* _get_valid_adjacent_cells: the neighbours not visited, not wall, not safe
get_valid_adjacent_cells(grid, loc) ==
    LET keep(l) == /\ ~grid[l.row][l.col].visited
                   /\ ~grid[l.row][l.col].wall
                   /\ ~grid[l.row][l.col].safe
    IN  SelectSeq(get_adjacent(loc), keep)

\* faulty variant: a cue raises the counter whatever the latch says
apply_to_cell_ignores_latch(cell, percept) ==
    IF cell.visited THEN cell
    ELSE LET pit == IF ~percept.breeze
                    THEN [cell EXCEPT !.possible_pit = 0, !.no_pit_for_sure = TRUE]
                    ELSE [cell EXCEPT !.possible_pit = @ + 1]
             wum == IF ~percept.stench
                    THEN [pit EXCEPT !.possible_wumpus = 0, !.no_wumpus_for_sure = TRUE]
                    ELSE [pit EXCEPT !.possible_wumpus = @ + 1]
         IN  IF ~percept.breeze /\ ~percept.stench
             THEN [wum EXCEPT !.safe = TRUE, !.no_pit_for_sure = TRUE,
                              !.no_wumpus_for_sure = TRUE]
             ELSE wum

\* faulty variant: an observation without cues takes the unsafe mark away
apply_to_cell_forgives(cell, percept) ==
    IF cell.visited THEN cell
    ELSE LET pit == IF ~percept.breeze
                    THEN [cell EXCEPT !.possible_pit = 0, !.no_pit_for_sure = TRUE]
                    ELSE IF ~cell.no_pit_for_sure
                    THEN [cell EXCEPT !.possible_pit = @ + 1]
                    ELSE cell
             wum == IF ~percept.stench
                    THEN [pit EXCEPT !.possible_wumpus = 0, !.no_wumpus_for_sure = TRUE]
                    ELSE IF ~pit.no_wumpus_for_sure
                    THEN [pit EXCEPT !.possible_wumpus = @ + 1]
                    ELSE pit
         IN  IF ~percept.breeze /\ ~percept.stench
             THEN [wum EXCEPT !.safe = TRUE, !.no_pit_for_sure = TRUE,
                              !.no_wumpus_for_sure = TRUE, !.unsafe = FALSE]
             ELSE wum

\* faulty variant: a cue that counts raises the counter by two
apply_to_cell_counts_twice(cell, percept) ==
    IF cell.visited THEN cell
    ELSE LET pit == IF ~percept.breeze
                    THEN [cell EXCEPT !.possible_pit = 0, !.no_pit_for_sure = TRUE]
                    ELSE IF ~cell.no_pit_for_sure
                    THEN [cell EXCEPT !.possible_pit = @ + 2]
                    ELSE cell
             wum == IF ~percept.stench
                    THEN [pit EXCEPT !.possible_wumpus = 0, !.no_wumpus_for_sure = TRUE]
                    ELSE IF ~pit.no_wumpus_for_sure
                    THEN [pit EXCEPT !.possible_wumpus = @ + 2]
                    ELSE pit
         IN  IF ~percept.breeze /\ ~percept.stench
             THEN [wum EXCEPT !.safe = TRUE, !.no_pit_for_sure = TRUE,
                              !.no_wumpus_for_sure = TRUE]
             ELSE wum

\* _apply_breeze_and_stench, lines 176-208: the body of the loop for one cell
apply_to_cell(cell, percept) ==
    IF cell.visited THEN cell
    ELSE LET pit == IF ~percept.breeze
                    THEN [cell EXCEPT !.possible_pit = 0, !.no_pit_for_sure = TRUE]
                    ELSE IF ~cell.no_pit_for_sure
                    THEN [cell EXCEPT !.possible_pit = @ + 1]
                    ELSE cell
             wum == IF ~percept.stench
                    THEN [pit EXCEPT !.possible_wumpus = 0, !.no_wumpus_for_sure = TRUE]
                    ELSE IF ~pit.no_wumpus_for_sure
                    THEN [pit EXCEPT !.possible_wumpus = @ + 1]
                    ELSE pit
         IN  IF ~percept.breeze /\ ~percept.stench
             THEN [wum EXCEPT !.safe = TRUE, !.no_pit_for_sure = TRUE,
                              !.no_wumpus_for_sure = TRUE]
             ELSE wum

RECURSIVE apply_breeze_and_stench(_, _, _)
apply_breeze_and_stench(grid, adjacent_cells, percept) ==
    IF adjacent_cells = <<>> THEN grid
    ELSE LET loc == Head(adjacent_cells)
         IN  apply_breeze_and_stench(
                 [grid EXCEPT ![loc.row][loc.col] = apply_to_cell(@, percept)],
                 Tail(adjacent_cells), percept)

\* faulty variant: every matching cell along the heading is reclassified
delete_wumpus_clears_line(grid, loc, dir, percept) ==
    IF ~percept.scream THEN grid
    ELSE LET ahead(k) == Location(loc.row + k * delta(dir)[1], loc.col + k * delta(dir)[2])
             inside(l) == /\ 0 <= l.row /\ l.row < kb_size
                          /\ 0 <= l.col /\ l.col < kb_size
             hits == {ahead(k) : k \in {j \in 1..kb_size :
                         /\ inside(ahead(j))
                         /\ grid[ahead(j).row][ahead(j).col].unsafe
                         /\ grid[ahead(j).row][ahead(j).col].possible_wumpus > 0}}
         IN  [r \in DOMAIN grid |-> [c \in DOMAIN grid[r] |->
                 IF Location(r, c) \in hits
                 THEN [grid[r][c] EXCEPT !.unsafe = FALSE, !.safe = TRUE,
                                         !.possible_wumpus = 0]
                 ELSE grid[r][c]]]

\* delete_wumpus: on a scream, the first cell ahead that is unsafe with a
\* positive possible_wumpus becomes safe; the scan stops at the grid's edge
delete_wumpus(grid, loc, dir, percept) ==
    IF ~percept.scream THEN grid
    ELSE LET ahead(k) == Location(loc.row + k * delta(dir)[1], loc.col + k * delta(dir)[2])
             inside(l) == /\ 0 <= l.row /\ l.row < kb_size
                          /\ 0 <= l.col /\ l.col < kb_size
             hits == {k \in 1..kb_size :
                         /\ \A j \in 1..k : inside(ahead(j))
                         /\ grid[ahead(k).row][ahead(k).col].unsafe
                         /\ grid[ahead(k).row][ahead(k).col].possible_wumpus > 0}
         IN  IF hits = {} THEN grid
             ELSE LET l == ahead(CHOOSE k \in hits : \A j \in hits : k <= j)
                  IN  [grid EXCEPT ![l.row][l.col].unsafe = FALSE,
                                   ![l.row][l.col].safe = TRUE,
                                   ![l.row][l.col].possible_wumpus = 0]

\* mark_wall reads percept.bump first: AttributeError for a Percept.  With a
\* bump it marks the cell ahead and zeroes its counters.
mark_wall(grid, loc, dir, percept) ==
    IF ~HasAttr(percept, "bump") THEN [exc |-> "AttributeError", grid |-> grid]
    ELSE IF ~percept.bump THEN [exc |-> None, grid |-> grid]
    ELSE LET w == move(loc, dir)
         IN  [exc |-> None,
              grid |-> [grid EXCEPT ![w.row][w.col].wall = TRUE,
                                    ![w.row][w.col].possible_pit = 0,
                                    ![w.row][w.col].possible_wumpus = 0]]

\* update_with_percept: delete_wumpus on a scream, then the read of
\* percept.bump (AttributeError for a Percept), then the first-visit update
update_with_percept(grid, loc, dir, percept) ==
    LET heard == delete_wumpus(grid, loc, dir, percept)
    IN  IF ~HasAttr(percept, "bump") THEN [exc |-> "AttributeError", grid |-> heard]
        ELSE LET walled == mark_wall(heard, loc, dir, percept).grid
                 marked == mark_current_as_visited_and_safe(walled, loc)
             IN  [exc |-> None,
                  grid |-> IF walled[loc.row][loc.col].visited THEN walled
                           ELSE apply_breeze_and_stench(
                                    marked, get_valid_adjacent_cells(marked, loc), percept)]

(***************************************************************************)
(* Controller.step and the methods it calls.                               *)
(***************************************************************************)
DeathMessage(dead_at_location) == [text |-> "died", at |-> dead_at_location]

\* faulty variant: the turn is counted before the game-over check
StepGameOverCounts ==
    /\ exc = None
    /\ is_game_over
    /\ total_steps' = total_steps + 1
    /\ UNCHANGED <<envVars, agentVars, is_bump, is_scream, is_game_over, messages>>
    /\ op' = "step" /\ branch' = "game_over" /\ arg' = None
    /\ ret' = FALSE /\ exc' = None

\* step, line 81: the game is already over
StepGameOver ==
    /\ exc = None
    /\ is_game_over
    /\ UNCHANGED progVars
    /\ op' = "step" /\ branch' = "game_over" /\ arg' = None
    /\ ret' = FALSE /\ exc' = None

\* faulty variant: the agent is put back on the stack top and the top stays
respawn_keeps_stack ==
    /\ exc = None
    /\ ~is_game_over
    /\ check_for_death(env_grid, location)
    /\ path_stack # <<>>
    /\ messages' = Append(messages, DeathMessage(location))
    /\ kb' = mark_unsafe(kb, location)
    /\ location' = path_stack[Len(path_stack)]
    /\ env_grid' = update_agent_position_in_grid(env_grid, location, path_stack[Len(path_stack)])
    /\ is_alive' = TRUE
    /\ total_steps' = total_steps + 1
    /\ ret' = TRUE /\ exc' = None
    /\ UNCHANGED <<score, is_backtracking, direction, has_arrow, has_gold,
                   is_bump, is_scream, is_game_over, path_stack>>
    /\ op' = "step" /\ branch' = "respawn" /\ arg' = None

\* faulty variant: the stack is popped and the agent is left where it died
respawn_stays_put ==
    /\ exc = None
    /\ ~is_game_over
    /\ check_for_death(env_grid, location)
    /\ path_stack # <<>>
    /\ messages' = Append(messages, DeathMessage(location))
    /\ kb' = mark_unsafe(kb, location)
    /\ path_stack' = SubSeq(path_stack, 1, Len(path_stack) - 1)
    /\ is_alive' = TRUE
    /\ total_steps' = total_steps + 1
    /\ ret' = TRUE /\ exc' = None
    /\ UNCHANGED <<env_grid, score, is_backtracking, location, direction, has_arrow,
                   has_gold, is_bump, is_scream, is_game_over>>
    /\ op' = "step" /\ branch' = "respawn" /\ arg' = None

\* faulty variant: the unsafe mark goes to the cell the agent is put back on
respawn_marks_return_cell ==
    /\ exc = None
    /\ ~is_game_over
    /\ check_for_death(env_grid, location)
    /\ path_stack # <<>>
    /\ messages' = Append(messages, DeathMessage(location))
    /\ kb' = mark_unsafe(kb, path_stack[Len(path_stack)])
    /\ location' = path_stack[Len(path_stack)]
    /\ path_stack' = SubSeq(path_stack, 1, Len(path_stack) - 1)
    /\ env_grid' = update_agent_position_in_grid(env_grid, location, path_stack[Len(path_stack)])
    /\ is_alive' = TRUE
    /\ total_steps' = total_steps + 1
    /\ ret' = TRUE /\ exc' = None
    /\ UNCHANGED <<score, is_backtracking, direction, has_arrow, has_gold,
                   is_bump, is_scream, is_game_over>>
    /\ op' = "step" /\ branch' = "respawn" /\ arg' = None

\* _handle_death_and_respawn with the agent on a lethal cell; list.pop() on an
\* empty path stack raises IndexError after the message and the unsafe mark.
handle_death_and_respawn ==
    /\ exc = None
    /\ ~is_game_over
    /\ check_for_death(env_grid, location)
    /\ LET dead_at_location == location
       IN  /\ messages' = Append(messages, DeathMessage(dead_at_location))
           /\ kb' = mark_unsafe(kb, dead_at_location)
           /\ IF path_stack = <<>>
              THEN /\ UNCHANGED <<location, path_stack, env_grid, is_alive, total_steps>>
                   /\ ret' = None /\ exc' = "IndexError"
              ELSE /\ location' = path_stack[Len(path_stack)]
                   /\ path_stack' = SubSeq(path_stack, 1, Len(path_stack) - 1)
                   /\ env_grid' = update_agent_position_in_grid(
                                      env_grid, dead_at_location, path_stack[Len(path_stack)])
                   /\ is_alive' = TRUE
                   /\ total_steps' = total_steps + 1
                   /\ ret' = TRUE /\ exc' = None
    /\ UNCHANGED <<score, is_backtracking, direction, has_arrow, has_gold,
                   is_bump, is_scream, is_game_over>>
    /\ op' = "step" /\ branch' = "respawn" /\ arg' = None

\* step, line 89 on: a normal turn.  env.get_percept builds Percept(...,
\* bump=bump) and Percept has no such field, so the call raises TypeError
\* before anything is changed and the rest of the turn is never run.
StepTurn ==
    /\ exc = None
    /\ ~is_game_over
    /\ ~check_for_death(env_grid, location)
    /\ LET percept == get_percept(env_grid, location, is_bump, is_scream)
       IN  /\ percept.exc # None
           /\ exc' = percept.exc
    /\ UNCHANGED progVars
    /\ op' = "step" /\ branch' = "turn" /\ arg' = None /\ ret' = None

step ==
    \/ StepGameOver
    \/ handle_death_and_respawn
    \/ StepTurn

\* _get_game_result: is_victory
is_victory == has_gold /\ location = Origin /\ is_game_over

(***************************************************************************)
(* Initial states of the controller: positions a game can be in.  The      *)
(* agent has walked a path of distinct adjacent cells from the origin; the *)
(* cells behind it are on the path stack, visited and hazard-free.         *)
(***************************************************************************)
Playable == {Location(r, c) : r \in 1..env_size, c \in 1..env_size}

Near == {l \in Playable : l.row <= Reach /\ l.col <= Reach}

RECURSIVE PathsOfLen(_)
PathsOfLen(n) ==
    IF n = 1 THEN {<<Origin>>}
    ELSE UNION {{Append(p, move(Last(p), d)) :
                    d \in {e \in Range(Direction) :
                              /\ move(Last(p), e) \in Playable
                              /\ move(Last(p), e) \notin Range(p)}} :
                p \in PathsOfLen(n - 1)}

Paths == UNION {PathsOfLen(n) : n \in 1..(MaxStack + 1)}

\* no cell of the cave: the place of the gold once it is grabbed
Nowhere == Location(0, 0)

\* Environment.grid with one wumpus, one pit and (while not grabbed) the gold
Layout(w, p, g) ==
    [r \in 0..(env_size - 1) |-> [c \in 0..(env_size - 1) |->
        [Cell EXCEPT !.has_pit = (Location(r + 1, c + 1) = p),
                     !.has_wumpus = (Location(r + 1, c + 1) = w),
                     !.has_gold = (Location(r + 1, c + 1) = g)]]]

Layouts(gold_present) ==
    {Layout(w, p, g) : <<w, p, g>> \in
        {t \in (Near \ {Origin}) \X (Near \ {Origin}) \X ((Near \ {Origin}) \cup {Nowhere}) :
            /\ t[1] # t[2] /\ t[3] # t[1] /\ t[3] # t[2]
            /\ (t[3] # Nowhere) = gold_present}}

\* the layout of the end-to-end scenario: wumpus (1,3), pit (2,1), gold (3,3)
ScenarioLayout == Layout(Location(1, 3), Location(2, 1), Location(3, 3))

\* a layout whose wumpus lies east of (2,1): wumpus (2,2), pit (1,2), gold (3,3)
AmbushLayout == Layout(Location(2, 2), Location(1, 2), Location(3, 3))

\* the layouts set by set_map are played from their start: the gold lies in
\* the cave
ScenarioLayouts(gold_present) ==
    IF gold_present THEN {ScenarioLayout, AmbushLayout} ELSE {}

\* faulty variant: a cell stepped on is flagged wall as well
VisitedWallCell == [Knowledge_Cell EXCEPT !.visited = TRUE, !.safe = TRUE, !.wall = TRUE]

VisitedCell == [Knowledge_Cell EXCEPT !.visited = TRUE, !.safe = TRUE]

\* the belief grid after walking `path`; when explored, every cell around
\* the agent is already known (wall outside the cave, unsafe where it died).
BeliefAfter(grid, path, explored) ==
    [r \in 0..(kb_size - 1) |-> [c \in 0..(kb_size - 1) |->
        LET l == Location(r, c)
        IN  IF l \in Range(Front(path)) THEN VisitedCell
            ELSE IF ~explored THEN Knowledge_Cell
            ELSE IF l = Last(path) THEN VisitedCell
            ELSE IF l \notin Range(get_adjacent(Last(path))) THEN Knowledge_Cell
            ELSE IF l \notin Playable THEN [Knowledge_Cell EXCEPT !.wall = TRUE]
            ELSE IF check_for_death(grid, l) THEN [Knowledge_Cell EXCEPT !.unsafe = TRUE]
            ELSE VisitedCell]]

CallInit == op = "init" /\ branch = None /\ arg = None /\ ret = None /\ exc = None

Init ==
    /\ has_gold \in BOOLEAN
    /\ \E grid \in Layouts(~has_gold) \cup ScenarioLayouts(~has_gold), path \in Paths :
        /\ \A l \in Range(Front(path)) : ~check_for_death(grid, l)
        /\ has_gold => ~check_for_death(grid, Last(path))
        /\ env_grid = SetAgent(grid, Last(path), TRUE)
        /\ location = Last(path)
        /\ path_stack = Front(path)
        /\ is_alive = ~check_for_death(grid, Last(path))
        /\ \E explored \in BOOLEAN :
            /\ explored => ~check_for_death(grid, Last(path))
            /\ kb = BeliefAfter(grid, path, explored)
    /\ score = 0
    /\ is_backtracking = FALSE
    /\ direction \in Range(Direction)
    /\ has_arrow = TRUE
    /\ is_bump \in BOOLEAN
    /\ is_scream = FALSE
    /\ is_game_over \in {b \in BOOLEAN : b => (has_gold /\ location = Origin)}
    /\ total_steps \in {0, StepLimit - 1}
    /\ messages = <<>>
    /\ CallInit

Next == step

Spec == Init /\ [][Next]_vars

\* run_game, lines 124-125: step is called again as long as it returns
SpecRun == Init /\ [][Next]_vars /\ WF_vars(Next)

(***************************************************************************)
(* Agent: the methods that carry out an action.                            *)
(***************************************************************************)
\* faulty variant: the quarter-turn goes counter-clockwise
turn_right_goes_left(d) == Direction[((DirectionIndex(d) - 1 - 1) % 4) + 1]

\* _turn_right: directions[(current_idx + 1) % 4]
turn_right(d) == Direction[((DirectionIndex(d) - 1 + 1) % 4) + 1]

\* faulty variant: the turn to the left steps the index forward
turn_left_turns_right(d) == Direction[((DirectionIndex(d) - 1 + 1) % 4) + 1]

\* _turn_left: directions[(current_idx - 1) % 4]
turn_left(d) == Direction[((DirectionIndex(d) - 1 - 1) % 4) + 1]

\* faulty variant: every successful move pushes the cell it leaves
move_forward_always_pushes(loc, dir, gold, backtracking, stack) ==
    LET new_location == move(loc, dir)
    IN  IF ~(/\ 1 <= new_location.row /\ new_location.row <= 4
             /\ 1 <= new_location.col /\ new_location.col <= 4)
        THEN [ret |-> "bumped", location |-> loc, path_stack |-> stack]
        ELSE [ret |-> None, location |-> new_location, path_stack |-> Append(stack, loc)]

\* faulty variant: the bounds are checked as if rows and columns began at 0
move_forward_from_zero(loc, dir, gold, backtracking, stack) ==
    LET new_location == move(loc, dir)
    IN  IF ~(/\ 0 <= new_location.row /\ new_location.row <= 4
             /\ 0 <= new_location.col /\ new_location.col <= 4)
        THEN [ret |-> "bumped", location |-> loc, path_stack |-> stack]
        ELSE [ret |-> None, location |-> new_location,
              path_stack |-> IF gold \/ backtracking THEN stack ELSE Append(stack, loc)]

\* _move_forward: the message returned ("bumped" for the wall message, None
\* for a move made), the location and the path stack it leaves
move_forward(loc, dir, gold, backtracking, stack) ==
    LET new_location == move(loc, dir)
    IN  IF ~(/\ 1 <= new_location.row /\ new_location.row <= 4
             /\ 1 <= new_location.col /\ new_location.col <= 4)
        THEN [ret |-> "bumped", location |-> loc, path_stack |-> stack]
        ELSE [ret |-> None, location |-> new_location,
              path_stack |-> IF gold \/ backtracking THEN stack ELSE Append(stack, loc)]

(***************************************************************************)
(* Agent: the decision policy.                                             *)
(***************************************************************************)
\* next(d for d in Direction if d.delta == (delta_row, delta_col)), else None
direction_towards(from, target) ==
    LET d == <<target.row - from.row, target.col - from.col>>
        hits == {i \in DOMAIN Direction : delta(Direction[i]) = d}
    IN  IF hits = {} THEN None
        ELSE Direction[CHOOSE i \in hits : \A j \in hits : i <= j]

\* faulty variant: the top is popped as soon as there is one, aligned or not
get_backtrack_action_pops_early(loc, dir, stack, backtracking) ==
    LET stay(a) == [action |-> a, path_stack |-> stack, is_backtracking |-> backtracking]
    IN  IF stack = <<>> THEN stay(None)
        ELSE LET target_direction == direction_towards(loc, Last(stack))
             IN  IF target_direction = None THEN stay(None)
                 ELSE IF dir # target_direction
                 THEN [action |-> "TURN_RIGHT", path_stack |-> Front(stack),
                       is_backtracking |-> backtracking]
                 ELSE [action |-> "FORWARD", path_stack |-> Front(stack),
                       is_backtracking |-> TRUE]

\* the action returned, and the path stack and backtracking flag it leaves
get_backtrack_action(loc, dir, stack, backtracking) ==
    LET stay(a) == [action |-> a, path_stack |-> stack, is_backtracking |-> backtracking]
    IN  IF stack = <<>> THEN stay(None)
        ELSE LET target_direction == direction_towards(loc, Last(stack))
             IN  IF target_direction = None THEN stay(None)
                 ELSE IF dir # target_direction THEN stay("TURN_RIGHT")
                 ELSE [action |-> "FORWARD", path_stack |-> Front(stack),
                       is_backtracking |-> TRUE]

\* faulty variant: a target one quarter turn to the left is turned to by the
\* left
get_exploration_action_turns_left(grid, loc, dir) ==
    LET valid_adjacent == get_adjacent_cells(grid, loc)
    IN  IF valid_adjacent = <<>> THEN None
        ELSE LET target_direction == direction_towards(loc, valid_adjacent[1])
             IN  IF target_direction = None THEN None
                 ELSE IF turn_left(dir) = target_direction THEN "TURN_LEFT"
                 ELSE IF dir # target_direction THEN "TURN_RIGHT"
                 ELSE "FORWARD"

get_exploration_action(grid, loc, dir) ==
    LET valid_adjacent == get_adjacent_cells(grid, loc)
    IN  IF valid_adjacent = <<>> THEN None
        ELSE LET target_direction == direction_towards(loc, valid_adjacent[1])
             IN  IF target_direction = None THEN None
                 ELSE IF dir # target_direction THEN "TURN_RIGHT"
                 ELSE "FORWARD"

\* faulty variant: away from the origin the gold does not stop the exploring
decide_explores_with_gold(percept, grid, loc, dir, gold, stack) ==
    LET only(a) == [action |-> a, path_stack |-> stack, is_backtracking |-> FALSE]
        exploration_action == get_exploration_action(grid, loc, dir)
    IN  IF gold /\ loc = Origin THEN only("CLIMB")
        ELSE IF percept.glitter THEN only("GRAB_GOLD")
        ELSE IF exploration_action # None THEN only(exploration_action)
        ELSE get_backtrack_action(loc, dir, stack, FALSE)

\* decide_next_action from line 178 on, is_backtracking already reset
decide(percept, grid, loc, dir, gold, stack) ==
    LET only(a) == [action |-> a, path_stack |-> stack, is_backtracking |-> FALSE]
        exploration_action == get_exploration_action(grid, loc, dir)
    IN  IF gold
        THEN IF loc = Origin THEN only("CLIMB")
             ELSE get_backtrack_action(loc, dir, stack, FALSE)
        ELSE IF percept.glitter THEN only("GRAB_GOLD")
        ELSE IF exploration_action # None THEN only(exploration_action)
        ELSE get_backtrack_action(loc, dir, stack, FALSE)

\* every Percept the constructor can build
PerceptValues == {Percept(kwargs).value : kwargs \in [PerceptFields -> BOOLEAN]}

\* Agent.decide_next_action(percept).  It resets is_backtracking, then prints
\* the percept: stench, breeze, glitter, bump, scream.  A Percept has no
\* attribute bump, so the print at line 175 raises AttributeError.
decide_next_action ==
    /\ exc = None
    /\ \E percept \in PerceptValues :
        /\ arg' = percept
        /\ IF ~HasAttr(percept, "bump")
           THEN /\ is_backtracking' = FALSE
                /\ UNCHANGED path_stack
                /\ ret' = None /\ exc' = "AttributeError"
           ELSE LET r == decide(percept, kb, location, direction, has_gold, path_stack)
                IN  /\ is_backtracking' = r.is_backtracking
                    /\ path_stack' = r.path_stack
                    /\ ret' = r.action /\ exc' = None
    /\ UNCHANGED <<envVars, ctlVars, is_alive, location, direction, has_arrow, has_gold, kb>>
    /\ op' = "decide_next_action" /\ branch' = None

\* Agent.get_backtrack_action()
GetBacktrackAction ==
    /\ exc = None
    /\ LET r == get_backtrack_action(location, direction, path_stack, is_backtracking)
       IN  /\ is_backtracking' = r.is_backtracking
           /\ path_stack' = r.path_stack
           /\ ret' = r.action /\ exc' = None
    /\ UNCHANGED <<envVars, ctlVars, is_alive, location, direction, has_arrow, has_gold, kb>>
    /\ op' = "get_backtrack_action" /\ branch' = None /\ arg' = None

\* Agent.get_exploration_action()
GetExplorationAction ==
    /\ exc = None
    /\ ret' = get_exploration_action(kb, location, direction) /\ exc' = None
    /\ UNCHANGED progVars
    /\ op' = "get_exploration_action" /\ branch' = None /\ arg' = None

\* Agent._turn_right()
TurnRight ==
    /\ exc = None
    /\ direction' = turn_right(direction)
    /\ UNCHANGED <<envVars, ctlVars, is_backtracking, is_alive, location, has_arrow,
                   has_gold, kb, path_stack>>
    /\ op' = "turn_right" /\ branch' = None /\ arg' = None
    /\ ret' = None /\ exc' = None

NextAgent ==
    \/ decide_next_action
    \/ GetBacktrackAction
    \/ GetExplorationAction
    \/ TurnRight

\* the agent's methods called on the positions of Init
SpecAgent == Init /\ [][NextAgent]_vars

(***************************************************************************)
(* The belief grid queried directly, as tests/test_knowledge_base.py does: *)
(* the four cells around the agent hold any of the cell states below.      *)
(***************************************************************************)
CellTemplates ==
    {[Knowledge_Cell EXCEPT !.possible_wumpus = t[1], !.possible_pit = t[2]] :
        t \in {u \in (0..MaxRisk) \X (0..MaxRisk) : u[1] + u[2] <= MaxRisk}}
    \cup {[Knowledge_Cell EXCEPT !.wall = TRUE],
          VisitedCell,
          [Knowledge_Cell EXCEPT !.unsafe = TRUE],
          [Knowledge_Cell EXCEPT !.unsafe = TRUE, !.possible_wumpus = 1],
          [Knowledge_Cell EXCEPT !.safe = TRUE, !.no_pit_for_sure = TRUE,
                                 !.no_wumpus_for_sure = TRUE]}

InitKB ==
    /\ location \in {Origin, Location(2, 2)}
    /\ \E around \in [1..4 -> CellTemplates] :
        LET adj == get_adjacent(location)
        IN  kb = [NewKnowledgeBase EXCEPT ![adj[1].row][adj[1].col] = around[1],
                                          ![adj[2].row][adj[2].col] = around[2],
                                          ![adj[3].row][adj[3].col] = around[3],
                                          ![adj[4].row][adj[4].col] = around[4]]
    /\ env_grid = SetAgent(ScenarioLayout, Origin, TRUE)
    /\ score = 0
    /\ is_backtracking = FALSE /\ is_alive = TRUE
    /\ direction = "NORTH" /\ has_arrow = TRUE /\ has_gold = FALSE
    /\ path_stack = <<>>
    /\ is_bump = FALSE /\ is_scream = FALSE /\ is_game_over = FALSE
    /\ total_steps = 0 /\ messages = <<>>
    /\ CallInit

\* Knowledge_base.get_adjacent_cells(location)
GetAdjacentCells ==
    /\ exc = None
    /\ op' = "get_adjacent_cells" /\ branch' = None /\ arg' = location
    /\ ret' = get_adjacent_cells(kb, location) /\ exc' = None
    /\ UNCHANGED progVars

NextKB == GetAdjacentCells

SpecKB == InitKB /\ [][NextKB]_vars

(***************************************************************************)
(* The belief grid of a new agent, updated by calling the methods of       *)
(* Knowledge_base directly, from the cells of a walk from the origin.      *)
(***************************************************************************)
\* the cells the agent steps on: the origin and a neighbour of both observers
Vantage == {Origin, Location(2, 1)}

\* the cells the cues are applied from: two cells with common neighbours
Observers == {Origin, Location(2, 2)}

\* the cell the agent may die on: a common neighbour of the observers
DeathCells == {Location(1, 2)}

\* the percepts without glitter and scream: stench and breeze vary
CuePercepts == {p \in PerceptValues : ~p.glitter /\ ~p.scream}

\* the percepts with a scream and nothing else
ScreamPercepts == {p \in PerceptValues : p.scream /\ ~p.glitter /\ ~p.stench /\ ~p.breeze}

InitBelief ==
    /\ kb = NewKnowledgeBase
    /\ location = Origin
    /\ env_grid = SetAgent(ScenarioLayout, Origin, TRUE)
    /\ score = 0
    /\ is_backtracking = FALSE /\ is_alive = TRUE
    /\ direction = "EAST" /\ has_arrow = TRUE /\ has_gold = FALSE
    /\ path_stack = <<>>
    /\ is_bump = FALSE /\ is_scream = FALSE /\ is_game_over = FALSE
    /\ total_steps = 0 /\ messages = <<>>
    /\ CallInit

\* what a call on the belief grid leaves alone
BeliefFrame == UNCHANGED <<envVars, ctlVars, is_backtracking, is_alive, location,
                           direction, has_arrow, has_gold, path_stack>>

\* Knowledge_base._mark_current_as_visited_and_safe(loc)
MarkCurrentAsVisitedAndSafe ==
    /\ exc = None
    /\ \E loc \in Vantage :
        /\ kb' = mark_current_as_visited_and_safe(kb, loc)
        /\ arg' = loc
    /\ op' = "mark_current_as_visited_and_safe" /\ branch' = None
    /\ ret' = None /\ exc' = None
    /\ BeliefFrame

\* Knowledge_base._apply_breeze_and_stench(adjacent_cells, percept) on the
\* list _get_valid_adjacent_cells gives, as update_with_percept calls it; a
\* call that would take a cell's combined risk above MaxRisk is left out
ApplyBreezeAndStench ==
    /\ exc = None
    /\ \E loc \in Observers, percept \in CuePercepts :
        LET adjacent_cells == get_valid_adjacent_cells(kb, loc)
            grid == apply_breeze_and_stench(kb, adjacent_cells, percept)
        IN  /\ \A l \in Range(adjacent_cells) : risk(grid, l) <= MaxRisk
            /\ kb' = grid
            /\ arg' = [adjacent_cells |-> adjacent_cells, percept |-> percept]
    /\ op' = "apply_breeze_and_stench" /\ branch' = None
    /\ ret' = None /\ exc' = None
    /\ BeliefFrame

\* Knowledge_base.mark_unsafe(loc)
MarkUnsafe ==
    /\ exc = None
    /\ \E loc \in DeathCells :
        /\ kb' = mark_unsafe(kb, loc)
        /\ arg' = loc
    /\ op' = "mark_unsafe" /\ branch' = None
    /\ ret' = None /\ exc' = None
    /\ BeliefFrame

\* Knowledge_base.delete_wumpus(location, direction, percept) with a scream
DeleteWumpus ==
    /\ exc = None
    /\ \E percept \in ScreamPercepts :
        /\ kb' = delete_wumpus(kb, location, direction, percept)
        /\ arg' = [location |-> location, direction |-> direction, percept |-> percept]
    /\ op' = "delete_wumpus" /\ branch' = None
    /\ ret' = None /\ exc' = None
    /\ BeliefFrame

\* Knowledge_base.mark_wall(location, direction, percept)
MarkWall ==
    /\ exc = None
    /\ \E percept \in {p \in CuePercepts : p.stench = p.breeze} :
        LET r == mark_wall(kb, location, direction, percept)
        IN  /\ kb' = r.grid
            /\ exc' = r.exc
            /\ arg' = [location |-> location, direction |-> direction, percept |-> percept]
    /\ op' = "mark_wall" /\ branch' = None /\ ret' = None
    /\ BeliefFrame

\* Knowledge_base.update_with_percept(location, direction, percept)
UpdateWithPercept ==
    /\ exc = None
    /\ \E percept \in {p \in CuePercepts : p.stench = p.breeze} \cup ScreamPercepts :
        LET r == update_with_percept(kb, location, direction, percept)
        IN  /\ kb' = r.grid
            /\ exc' = r.exc
            /\ arg' = [location |-> location, direction |-> direction, percept |-> percept]
    /\ op' = "update_with_percept" /\ branch' = None /\ ret' = None
    /\ BeliefFrame

NextBelief ==
    \/ MarkCurrentAsVisitedAndSafe
    \/ ApplyBreezeAndStench
    \/ MarkUnsafe
    \/ DeleteWumpus
    \/ MarkWall
    \/ UpdateWithPercept
    \/ GetAdjacentCells

SpecBelief == InitBelief /\ [][NextBelief]_vars

(***************************************************************************)
(* A new agent moved about by calling its methods directly.                *)
(***************************************************************************)
\* Agent._move_forward(); a move that would make the path stack longer than
\* MaxStack + 1 entries is left out
MoveForward ==
    /\ exc = None
    /\ LET r == move_forward(location, direction, has_gold, is_backtracking, path_stack)
       IN  /\ Len(r.path_stack) <= MaxStack + 1
           /\ location' = r.location
           /\ path_stack' = r.path_stack
           /\ ret' = r.ret
    /\ UNCHANGED <<envVars, ctlVars, is_backtracking, is_alive, direction, has_arrow,
                   has_gold, kb>>
    /\ op' = "move_forward" /\ branch' = None /\ arg' = None /\ exc' = None

\* Agent._turn_left()
TurnLeft ==
    /\ exc = None
    /\ direction' = turn_left(direction)
    /\ UNCHANGED <<envVars, ctlVars, is_backtracking, is_alive, location, has_arrow,
                   has_gold, kb, path_stack>>
    /\ op' = "turn_left" /\ branch' = None /\ arg' = None
    /\ ret' = None /\ exc' = None

\* Agent._grab_gold(): the message "held" when the gold is held already
GrabGold ==
    /\ exc = None
    /\ has_gold' = TRUE
    /\ ret' = IF has_gold THEN "held" ELSE None
    /\ UNCHANGED <<envVars, ctlVars, is_backtracking, is_alive, location, direction,
                   has_arrow, kb, path_stack>>
    /\ op' = "grab_gold" /\ branch' = None /\ arg' = None /\ exc' = None

\* Agent._climb(): a message away from the origin or without the gold
Climb ==
    /\ exc = None
    /\ ret' = IF location # Origin THEN "not_at_start"
              ELSE IF ~has_gold THEN "no_gold"
              ELSE None
    /\ UNCHANGED progVars
    /\ op' = "climb" /\ branch' = None /\ arg' = None /\ exc' = None

NextMoves ==
    \/ MoveForward
    \/ TurnRight
    \/ TurnLeft
    \/ GrabGold
    \/ Climb
    \/ GetBacktrackAction

SpecMoves == InitBelief /\ [][NextMoves]_vars

(***************************************************************************)
(* The belief grid of a new agent with deaths and stench along row 1, and  *)
(* delete_wumpus called along it, with and without a scream.               *)
(***************************************************************************)
\* the cells the agent may die on: two cells in line east of the origin
ScanCells == {Location(1, 2), Location(1, 3)}

\* the cells stench is applied from: one below each cell of the line
ScanObservers == {Location(2, 2), Location(2, 3)}

\* where the arrow is shot from: before the line and on its first cell
ShotFrom == {Origin, Location(1, 2)}

\* the percepts a shot is followed by: a scream, or nothing
ShotPercepts == ScreamPercepts \cup {p \in CuePercepts : ~p.stench /\ ~p.breeze}

\* Knowledge_base.mark_unsafe(loc) on a cell of the line
ScanMarkUnsafe ==
    /\ exc = None
    /\ \E loc \in ScanCells :
        /\ kb' = mark_unsafe(kb, loc)
        /\ arg' = loc
    /\ op' = "mark_unsafe" /\ branch' = None
    /\ ret' = None /\ exc' = None
    /\ BeliefFrame

\* Knowledge_base._apply_breeze_and_stench with stench alone, from a cell
\* below the line; a call that would take a cell's risk above MaxRisk is
\* left out
ScanApplyStench ==
    /\ exc = None
    /\ \E loc \in ScanObservers, percept \in {p \in CuePercepts : p.stench /\ ~p.breeze} :
        LET adjacent_cells == get_valid_adjacent_cells(kb, loc)
            grid == apply_breeze_and_stench(kb, adjacent_cells, percept)
        IN  /\ \A l \in Range(adjacent_cells) : risk(grid, l) <= MaxRisk
            /\ kb' = grid
            /\ arg' = [adjacent_cells |-> adjacent_cells, percept |-> percept]
    /\ op' = "apply_breeze_and_stench" /\ branch' = None
    /\ ret' = None /\ exc' = None
    /\ BeliefFrame

\* Knowledge_base.delete_wumpus(location, direction, percept) from a cell
\* of row 1, along any heading
ScanDeleteWumpus ==
    /\ exc = None
    /\ \E loc \in ShotFrom, dir \in Range(Direction), percept \in ShotPercepts :
        /\ kb' = delete_wumpus(kb, loc, dir, percept)
        /\ arg' = [location |-> loc, direction |-> dir, percept |-> percept]
    /\ op' = "delete_wumpus" /\ branch' = None
    /\ ret' = None /\ exc' = None
    /\ BeliefFrame

NextClear ==
    \/ ScanMarkUnsafe
    \/ ScanApplyStench
    \/ ScanDeleteWumpus

SpecClear == InitBelief /\ [][NextClear]_vars

(***************************************************************************)
(* A game played by calling the methods a turn is made of: the policy's    *)
(* procedures as decide_next_action dispatches to them, _process_action    *)
(* with the action they return, and the death recovery of step.            *)
(***************************************************************************)
\* the points paid for actions carried out, one each: the score without its
\* thousands
Spent == (0 - score) % 1000

\* the message _process_action appends: f"Step {total_steps + 1}: {message}"
StepMessage(message) == [text |-> message, step |-> total_steps + 1]

InitPlay ==
    /\ Init
    /\ ~is_game_over /\ ~is_bump
    /\ total_steps = 0

\* decide_next_action, lines 170 and 178-208: is_backtracking is reset and
\* the action is chosen, by get_backtrack_action with the gold away from
\* the origin, by get_exploration_action without it, by get_backtrack_action
\* when that has nothing to offer.  The glitter is the one the environment
\* senses at the agent's cell.  Once MaxTurns actions are paid for no
\* further one is chosen.
Policy ==
    /\ exc = None
    /\ op # "policy"
    /\ ~is_game_over
    /\ ~check_for_death(env_grid, location)
    /\ Spent < MaxTurns
    /\ LET percept == sense(env_grid, location)
           r == decide(percept, kb, location, direction, has_gold, path_stack)
       IN  /\ is_backtracking' = r.is_backtracking
           /\ path_stack' = r.path_stack
           /\ ret' = r.action
           /\ arg' = percept
    /\ UNCHANGED <<envVars, ctlVars, is_alive, location, direction, has_arrow, has_gold, kb>>
    /\ op' = "policy" /\ branch' = None /\ exc' = None

\* Controller._process_action(action) with the action the policy chose
ProcessAction ==
    /\ exc = None
    /\ op = "policy"
    /\ LET action == ret
           r == perform_action(env_grid, action, location, direction)
           forward == move_forward(location, direction, has_gold, is_backtracking, path_stack)
           is_bump_now == action = "FORWARD" /\ r.message = "bump"
           is_scream_now == action = "SHOOT_ARROW" /\ r.message = "killed"
       IN  /\ env_grid' = r.grid
           /\ messages' = IF r.message # None THEN Append(messages, StepMessage(r.message))
                           ELSE messages
           /\ score' = score + r.score_delta
           /\ location' = IF r.success /\ action = "FORWARD" THEN forward.location
                           ELSE location
           /\ path_stack' = IF r.success /\ action = "FORWARD" THEN forward.path_stack
                             ELSE path_stack
           /\ direction' = IF r.success /\ action = "TURN_LEFT" THEN turn_left(direction)
                            ELSE IF r.success /\ action = "TURN_RIGHT" THEN turn_right(direction)
                            ELSE direction
           /\ has_arrow' = IF r.success /\ action = "SHOOT_ARROW" THEN FALSE ELSE has_arrow
           /\ has_gold' = IF r.success /\ action = "GRAB_GOLD" THEN TRUE ELSE has_gold
           /\ is_game_over' = IF r.success /\ action = "CLIMB" /\ location = Origin THEN TRUE
                               ELSE is_game_over
           /\ arg' = action
           /\ ret' = <<r.success, is_bump_now, is_scream_now>>
    /\ UNCHANGED <<is_backtracking, is_alive, kb, is_bump, is_scream, total_steps>>
    /\ op' = "process_action" /\ branch' = None /\ exc' = None

NextPlay ==
    \/ Policy
    \/ ProcessAction
    \/ handle_death_and_respawn

SpecPlay == InitPlay /\ [][NextPlay]_vars

(***************************************************************************)
(* Properties of Controller.step (specification Spec).                     *)
(***************************************************************************)
\* the cell of the last death message
DiedAt == Last(messages).at

\* the policy has nothing left to do: no gold held or seen, no candidate
\* neighbour, empty path stack
Exhausted ==
    /\ ~has_gold
    /\ ~env_grid[location.row - 1][location.col - 1].has_gold
    /\ get_adjacent_cells(kb, location) = <<>>
    /\ path_stack = <<>>

\* C1: death recovery.  A step that begins (game not over) with the agent on
\* a lethal cell D and a path stack whose top is P leaves the agent at P,
\* the belief cell D unsafe, is_alive true and the stack without its top.
DeathRecovery ==
    [][(/\ op' = "step"
        /\ ~is_game_over
        /\ check_for_death(env_grid, location)
        /\ path_stack # <<>>)
       => (/\ exc' = None
           /\ location' = Last(path_stack)
           /\ kb'[location.row][location.col].unsafe
           /\ is_alive'
           /\ path_stack' = Front(path_stack))]_vars

\* C1 witness: a recovery turn has run: the agent died at DiedAt and stands
\* on another cell, alive.
DeathRecoveryWitness ==
    /\ op = "step" /\ branch = "respawn" /\ exc = None
    /\ messages # <<>>
    /\ check_for_death(env_grid, DiedAt)
    /\ kb[DiedAt.row][DiedAt.col].unsafe
    /\ location # DiedAt
    /\ is_alive

\* C2: once a step has brought the turn counter to the ceiling of 200 the
\* controller has forced the end of the game: is_game_over is true, and the
\* result is a loss unless the escape succeeded.
CeilingForcesGameOver ==
    (op = "step" /\ exc = None /\ total_steps >= StepLimit) => is_game_over

\* C3: the turn counter never decreases, grows by exactly 1 in every step
\* that executes a turn, and no turn is executed once it has reached 200:
\* a step that returns True leaves it below 200.
TurnCounterCeiling ==
    [][op' = "step"
       => (/\ total_steps' >= total_steps
           /\ (exc' = None /\ branch' # "game_over") => total_steps' = total_steps + 1
           /\ (exc' = None /\ ret' = TRUE) => total_steps' < StepLimit)]_vars

\* C4: step returns, and it returns False exactly when the game is over as
\* it returns (escape done or 200 turns counted).
StepReturnsFalseIffOver ==
    op = "step" =>
        (/\ exc = None
         /\ (ret = FALSE) <=> (is_game_over \/ total_steps >= StepLimit))

\* C5: a turn that starts with the agent at the origin holding the gold
\* ends the game with a win, and a win comes about in no other way.
EscapeWins ==
    [][op' = "step"
       => (/\ (~is_game_over /\ has_gold /\ location = Origin)
                => (exc' = None /\ is_game_over' /\ is_victory')
           /\ (is_victory' /\ ~is_victory)
                => (has_gold /\ location = Origin /\ branch' = "turn"))]_vars

\* C6: game-over is absorbing.  A step called with is_game_over true
\* returns False and leaves environment, agent, belief grid, score, turn
\* counter and message log as they were.
GameOverAbsorbing ==
    [][(op' = "step" /\ is_game_over)
       => (exc' = None /\ ret' = FALSE /\ UNCHANGED progVars)]_vars

\* C6 witness: a step has been called on a finished game
GameOverAbsorbingWitness ==
    /\ op = "step" /\ branch = "game_over" /\ exc = None
    /\ is_game_over /\ ret = FALSE

\* C8: a turn that starts in the exhausted state (retreat needed, path stack
\* empty) ends the game as a loss at that turn.
ExhaustionEndsGame ==
    [][(/\ op' = "step"
        /\ ~is_game_over
        /\ ~check_for_death(env_grid, location)
        /\ Exhausted)
       => (exc' = None /\ ret' = FALSE /\ is_game_over' /\ ~is_victory')]_vars

(***************************************************************************)
(* Properties of Agent.decide_next_action (specification SpecAgent).       *)
(***************************************************************************)
\* the action the priority order of the policy asks for
PriorityAction(percept) ==
    IF has_gold /\ location = Origin THEN "CLIMB"
    ELSE IF has_gold
         THEN get_backtrack_action(location, direction, path_stack, FALSE).action
    ELSE IF percept.glitter THEN "GRAB_GOLD"
    ELSE IF get_exploration_action(kb, location, direction) # None
         THEN get_exploration_action(kb, location, direction)
    ELSE get_backtrack_action(location, direction, path_stack, FALSE).action

\* C7: decide_next_action returns the action of the strict priority order:
\* CLIMB, else retreat with the gold, else GRAB_GOLD on glitter, else the
\* exploration action, else retreat.
DecisionPriority ==
    [][op' = "decide_next_action"
       => (exc' = None /\ ret' = PriorityAction(arg'))]_vars

(***************************************************************************)
(* Properties of Knowledge_base.get_adjacent_cells (specification SpecKB). *)
(***************************************************************************)
\* the four-neighbours of the agent's location free of wall, visited, unsafe
Candidates ==
    {n \in Range(get_adjacent(location)) :
        /\ ~kb[n.row][n.col].wall
        /\ ~kb[n.row][n.col].visited
        /\ ~kb[n.row][n.col].unsafe}

\* the place of the direction from loc to its neighbour n in NORTH, EAST,
\* SOUTH, WEST
HeadingIndex(loc, n) == CHOOSE i \in DOMAIN Direction : move(loc, Direction[i]) = n

\* C9: get_adjacent_cells returns exactly the neighbours that are not wall,
\* not visited and not unsafe, each once, whatever their risk counters (so
\* the empty list when there is none).
AdjacentCellsExact ==
    op = "get_adjacent_cells"
        => (Range(ret) = Candidates /\ Len(ret) = Cardinality(Candidates))

\* C9 witness: a query that returned some neighbours and left out an unsafe
\* one and a visited or wall one
AdjacentCellsExactWitness ==
    /\ op = "get_adjacent_cells"
    /\ ret # <<>>
    /\ \E n \in Range(get_adjacent(location)) : kb[n.row][n.col].unsafe
    /\ \E n \in Range(get_adjacent(location)) : kb[n.row][n.col].visited \/ kb[n.row][n.col].wall
    /\ \E n \in Range(ret) : risk(kb, n) > 0

\* C10: the returned list ascends in possible_wumpus + possible_pit, and
\* candidates of equal combined risk stand in the order NORTH, EAST, SOUTH,
\* WEST of their direction from the location.
AdjacentCellsSorted ==
    op = "get_adjacent_cells"
        => \A i, j \in DOMAIN ret :
              i < j => \/ risk(kb, ret[i]) < risk(kb, ret[j])
                       \/ /\ risk(kb, ret[i]) = risk(kb, ret[j])
                          /\ HeadingIndex(location, ret[i]) < HeadingIndex(location, ret[j])

\* C10 witness: a returned list in which the risk order overrides the
\* heading order for one pair and a tie is settled by heading for another
AdjacentCellsSortedWitness ==
    /\ op = "get_adjacent_cells"
    /\ \E i, j \in DOMAIN ret :
          /\ i < j
          /\ risk(kb, ret[i]) < risk(kb, ret[j])
          /\ HeadingIndex(location, ret[i]) > HeadingIndex(location, ret[j])
    /\ \E i, j \in DOMAIN ret : i < j /\ risk(kb, ret[i]) = risk(kb, ret[j])

(***************************************************************************)
(* Properties of the belief grid under direct calls (specification         *)
(* SpecBelief).                                                            *)
(***************************************************************************)
BeliefCells == {Location(r, c) : r \in 0..(kb_size - 1), c \in 0..(kb_size - 1)}

\* C11: ruled-out latches.  In every state a cell whose no_pit_for_sure
\* (no_wumpus_for_sure) is true has possible_pit (possible_wumpus) 0, and a
\* latch that is true stays true in the next state, whatever cue the next
\* call carries.
RuledOutStaysRuledOut ==
    [][\A l \in BeliefCells :
          /\ kb'[l.row][l.col].no_pit_for_sure => kb'[l.row][l.col].possible_pit = 0
          /\ kb'[l.row][l.col].no_wumpus_for_sure => kb'[l.row][l.col].possible_wumpus = 0
          /\ kb[l.row][l.col].no_pit_for_sure => kb'[l.row][l.col].no_pit_for_sure
          /\ kb[l.row][l.col].no_wumpus_for_sure => kb'[l.row][l.col].no_wumpus_for_sure]_vars

\* C11 witness: a call carrying stench went over a cell l whose wumpus latch
\* was set and over a cell m that was never ruled out; m, seen by this
\* observer alone whenever l was, shows l's latch came from another
\* neighbour; m's counter is raised and l's is still 0.
RuledOutStaysRuledOutWitness ==
    /\ op = "apply_breeze_and_stench"
    /\ arg.percept.stench
    /\ \E l, m \in Range(arg.adjacent_cells) :
          /\ kb[l.row][l.col].no_wumpus_for_sure
          /\ kb[l.row][l.col].possible_wumpus = 0
          /\ ~kb[m.row][m.col].no_wumpus_for_sure
          /\ kb[m.row][m.col].possible_wumpus > 0

\* C12: update_with_percept without a scream returns, leaves the observing
\* location visited, and changes nothing when that location was visited
\* before the call.
UpdateIdempotent ==
    [][(op' = "update_with_percept" /\ ~arg'.percept.scream)
       => (/\ exc' = None
           /\ kb'[arg'.location.row][arg'.location.col].visited
           /\ kb[arg'.location.row][arg'.location.col].visited => kb' = kb)]_vars

\* C13: every belief cell flagged visited is flagged safe and has
\* possible_pit = 0 and possible_wumpus = 0.
VisitedIsSafeAndRiskFree ==
    \A l \in BeliefCells :
        kb[l.row][l.col].visited
            => (/\ kb[l.row][l.col].safe
                /\ kb[l.row][l.col].possible_pit = 0
                /\ kb[l.row][l.col].possible_wumpus = 0)

\* C13 witness: cues were applied from an observer one of whose neighbours
\* is visited: the call went round the visited cell and raised the risk of
\* another neighbour.
VisitedIsSafeAndRiskFreeWitness ==
    /\ op = "apply_breeze_and_stench"
    /\ arg.percept.breeze \/ arg.percept.stench
    /\ \E o \in Observers :
          /\ arg.adjacent_cells = get_valid_adjacent_cells(kb, o)
          /\ \E l \in Range(get_adjacent(o)) : kb[l.row][l.col].visited
          /\ \E m \in Range(arg.adjacent_cells) : risk(kb, m) > 0

\* no hazard-destroyed cue in the call that leads to the next state
NoScreamNext ==
    /\ op' # "delete_wumpus"
    /\ ~(op' = "update_with_percept" /\ arg'.percept.scream)

\* C17: a cell flagged unsafe stays flagged unsafe through every call
\* without a scream, get_adjacent_cells does not return it, and the
\* exploration action is not FORWARD when the agent faces it.
UnsafeStaysExcluded ==
    [][\A l \in BeliefCells :
          (kb[l.row][l.col].unsafe /\ NoScreamNext)
            => (/\ kb'[l.row][l.col].unsafe
                /\ op' = "get_adjacent_cells" => l \notin Range(ret')
                /\ get_exploration_action(kb', location', direction') = "FORWARD"
                     => move(location', direction') # l)]_vars

\* C17 witness: a query that returned some neighbours and left out a cell
\* that is unsafe and, by an observation without cues, safe as well
UnsafeStaysExcludedWitness ==
    /\ op = "get_adjacent_cells"
    /\ ret # <<>>
    /\ \E l \in Range(get_adjacent(location)) :
          /\ kb[l.row][l.col].unsafe
          /\ kb[l.row][l.col].safe
          /\ l \notin Range(ret)

\* the neighbours of o that are not visited, not wall and not safe in grid
OpenNeighbours(grid, o) ==
    {l \in Range(get_adjacent(o)) :
        /\ ~grid[l.row][l.col].visited
        /\ ~grid[l.row][l.col].wall
        /\ ~grid[l.row][l.col].safe}

\* C28: the cues observed from a location are applied to exactly its
\* neighbours that are not visited, not wall and not safe, and to each of
\* them, for pits and for the wumpus separately: cue absent - the counter
\* is 0 and the latch set afterwards; cue present and latch unset - the
\* counter is one more than before; cue present and latch set - the counter
\* is what it was; both cues absent - the neighbour is safe with both
\* latches set.
NeighbourInference ==
    [][op' = "apply_breeze_and_stench"
       => /\ \E o \in Observers : Range(arg'.adjacent_cells) = OpenNeighbours(kb, o)
          /\ \A l \in Range(arg'.adjacent_cells) :
                LET old == kb[l.row][l.col]
                    new == kb'[l.row][l.col]
                    percept == arg'.percept
                IN  /\ ~percept.breeze
                          => (new.possible_pit = 0 /\ new.no_pit_for_sure)
                    /\ (percept.breeze /\ ~old.no_pit_for_sure)
                          => new.possible_pit = old.possible_pit + 1
                    /\ (percept.breeze /\ old.no_pit_for_sure)
                          => new.possible_pit = old.possible_pit
                    /\ ~percept.stench
                          => (new.possible_wumpus = 0 /\ new.no_wumpus_for_sure)
                    /\ (percept.stench /\ ~old.no_wumpus_for_sure)
                          => new.possible_wumpus = old.possible_wumpus + 1
                    /\ (percept.stench /\ old.no_wumpus_for_sure)
                          => new.possible_wumpus = old.possible_wumpus
                    /\ (~percept.breeze /\ ~percept.stench)
                          => (new.safe /\ new.no_pit_for_sure /\ new.no_wumpus_for_sure)]_vars

\* C28 witness: stench without breeze was applied to a neighbour whose
\* wumpus counter two observers have raised and whose pit latch is set,
\* while it is still not safe
NeighbourInferenceWitness ==
    /\ op = "apply_breeze_and_stench"
    /\ arg.percept.stench /\ ~arg.percept.breeze
    /\ \E l \in Range(arg.adjacent_cells) :
          /\ kb[l.row][l.col].possible_wumpus = 2
          /\ kb[l.row][l.col].possible_pit = 0
          /\ kb[l.row][l.col].no_pit_for_sure
          /\ ~kb[l.row][l.col].no_wumpus_for_sure
          /\ ~kb[l.row][l.col].safe

\* the cells of grid other than those of S are the same in next
SameOutside(grid, next, S) ==
    \A l \in BeliefCells \ S : next[l.row][l.col] = grid[l.row][l.col]

Ahead(loc, dir, k) == Location(loc.row + k * delta(dir)[1], loc.col + k * delta(dir)[2])

\* the distances from loc along dir at which a cell of the belief grid is
\* unsafe with a positive possible_wumpus
Matching(grid, loc, dir) ==
    {k \in 1..kb_size :
        /\ Ahead(loc, dir, k) \in BeliefCells
        /\ grid[Ahead(loc, dir, k).row][Ahead(loc, dir, k).col].unsafe
        /\ grid[Ahead(loc, dir, k).row][Ahead(loc, dir, k).col].possible_wumpus > 0}

\* C31: delete_wumpus with a scream changes one cell only, the nearest cell
\* ahead of the given location that is unsafe with possible_wumpus > 0: it
\* becomes safe, not unsafe, with possible_wumpus 0 and its other fields as
\* they were.  Without a scream, or with no such cell ahead, the grid is
\* unchanged.
ClearFirstMatch ==
    [][op' = "delete_wumpus"
       => LET loc == arg'.location
              dir == arg'.direction
              found == Matching(kb, loc, dir)
          IN  IF ~arg'.percept.scream \/ found = {}
              THEN kb' = kb
              ELSE LET first == Ahead(loc, dir, CHOOSE k \in found : \A j \in found : k <= j)
                   IN  /\ kb'[first.row][first.col]
                            = [kb[first.row][first.col] EXCEPT !.unsafe = FALSE, !.safe = TRUE,
                                                               !.possible_wumpus = 0]
                       /\ SameOutside(kb, kb', {first})]_vars

\* C31 witness: a scream along a line with two cells that were unsafe with
\* possible_wumpus > 0: the nearer one has been reclassified and the
\* farther one still matches
ClearFirstMatchWitness ==
    /\ op = "delete_wumpus"
    /\ arg.percept.scream
    /\ \E j, k \in 1..kb_size :
          /\ j < k
          /\ Ahead(arg.location, arg.direction, j) \in ScanCells
          /\ LET l == Ahead(arg.location, arg.direction, j)
             IN  kb[l.row][l.col].safe /\ ~kb[l.row][l.col].unsafe
                 /\ ~kb[l.row][l.col].no_wumpus_for_sure
          /\ Matching(kb, arg.location, arg.direction) = {k}

(***************************************************************************)
(* Properties of a game played by direct calls (specification SpecPlay).   *)
(***************************************************************************)
\* C32: with the gold held the agent only retreats.  has_gold stays true,
\* the path stack does not grow, the agent is on no lethal cell, FORWARD is
\* chosen only towards the top of the stack, which is popped, and a move
\* carried out ends on that popped cell, one the agent has stood on.
RetreatOnly ==
    [][/\ has_gold' => ~check_for_death(env_grid', location')
       /\ has_gold
            => /\ has_gold'
               /\ Len(path_stack') <= Len(path_stack)
               /\ (op' = "policy" /\ ret' = "FORWARD")
                     => (/\ path_stack # <<>>
                         /\ Last(path_stack) = move(location, direction)
                         /\ path_stack' = Front(path_stack))
               /\ location' # location
                     => (/\ op = "policy" /\ ret = "FORWARD" /\ op' = "process_action"
                         /\ location' = move(location, direction)
                         /\ location' \notin Range(path_stack'))]_vars

\* C32 witness: a FORWARD carried out with the gold held has put the agent
\* on a popped cell that is not yet the origin
RetreatOnlyWitness ==
    /\ op = "process_action" /\ arg = "FORWARD"
    /\ has_gold /\ is_backtracking
    /\ location # Origin
    /\ path_stack # <<>>
    /\ ~check_for_death(env_grid, location)

RECURSIVE RetreatTurns(_, _, _)
RetreatTurns(loc, dir, stack) ==
    IF stack = <<>> THEN 0
    ELSE LET target_direction == direction_towards(loc, Last(stack))
         IN  ((DirectionIndex(target_direction) - DirectionIndex(dir)) % 4) + 1
                 + RetreatTurns(Last(stack), target_direction, Front(stack))

\* C15: the retreat is bounded.  With the gold held and n >= 1 stack
\* entries, at most 4 * n turns remain to the origin, and every turn below
\* the ceiling takes one of them: the agent is at the origin with an empty
\* stack after at most 4 * n turns.
RetreatBounded ==
    [][(/\ op' = "step"
        /\ ~is_game_over
        /\ ~check_for_death(env_grid, location)
        /\ has_gold
        /\ path_stack # <<>>
        /\ total_steps + 1 < StepLimit)
       => (/\ RetreatTurns(location, direction, path_stack) <= 4 * Len(path_stack)
           /\ exc' = None
           /\ RetreatTurns(location', direction', path_stack')
                = RetreatTurns(location, direction, path_stack) - 1
           /\ path_stack' = <<>> => location' = Origin)]_vars

\* the start of the end-to-end scenario
ScenarioStart ==
    /\ env_grid = SetAgent(ScenarioLayout, Origin, TRUE)
    /\ location = Origin /\ direction = "NORTH"
    /\ path_stack = <<>> /\ kb = NewKnowledgeBase
    /\ ~has_gold /\ ~is_game_over /\ ~is_bump /\ ~is_scream

\* C16: after one step from the start of the scenario the snapshot taken at
\* (1,1) has neither breeze nor stench, belief cell (1,1) is visited and
\* safe, and (1,2) and (2,1) are safe.
ScenarioFirstStep ==
    [][(op' = "step" /\ ScenarioStart)
       => (/\ exc' = None
           /\ ~sense(env_grid, Origin).breeze
           /\ ~sense(env_grid, Origin).stench
           /\ kb'[1][1].visited /\ kb'[1][1].safe
           /\ kb'[1][2].safe /\ kb'[2][1].safe)]_vars

\* the first turn of a new agent: at the origin, facing NORTH, nothing
\* known; the four neighbours are alike to the belief grid before and after
\* this turn's update, so the policy picks the first, (0,1), and moves
\* FORWARD into the boundary
FirstTurnBump ==
    /\ ~is_game_over
    /\ ~check_for_death(env_grid, location)
    /\ location = Origin /\ direction = "NORTH"
    /\ kb = NewKnowledgeBase /\ path_stack = <<>>
    /\ ~has_gold /\ ~sense(env_grid, location).glitter
    /\ ~is_bump /\ ~is_scream
    /\ get_exploration_action(kb, location, direction) = "FORWARD"
    /\ ~is_valid_location(move(location, direction))

\* C18: a FORWARD rejected at the boundary leaves location, heading, gold
\* flag and path stack as they were, appends the reason to the messages,
\* sets the collision flag, and the turn completes: the turn counter grows
\* by 1.
BumpLeavesAgentAlone ==
    [][(op' = "step" /\ FirstTurnBump)
       => (/\ exc' = None
           /\ UNCHANGED <<location, direction, has_gold, path_stack>>
           /\ Len(messages') = Len(messages) + 1
           /\ is_bump'
           /\ total_steps' = total_steps + 1)]_vars

\* the path walked: the stack and then the current location
PathWalked == Append(path_stack, location)

\* C20: the path stack followed by the current location starts at the
\* origin, holds pairwise distinct cells, consecutive ones orthogonally
\* adjacent; so the top is not the current location, an empty stack means
\* the agent is at the origin, and the stack holds at most 15 entries.
PathInvariant ==
    /\ PathWalked[1] = Origin
    /\ \A i, j \in DOMAIN PathWalked : i # j => PathWalked[i] # PathWalked[j]
    /\ \A i \in DOMAIN path_stack :
          direction_towards(PathWalked[i], PathWalked[i + 1]) # None
    /\ path_stack # <<>> => Last(path_stack) # location
    /\ path_stack = <<>> => location = Origin
    /\ Len(path_stack) <= env_size * env_size - 1

\* C20 witness: a death recovery has put the agent back on a cell other
\* than the origin, with entries left on the stack
PathInvariantWitness ==
    /\ op = "step" /\ branch = "respawn" /\ exc = None
    /\ path_stack # <<>>
    /\ location # Origin

\* C21: death recovery never pops an empty stack.  Whenever the agent is on
\* a lethal cell the path stack is non-empty and its top is a non-lethal,
\* visited cell next to the agent's: the cell it entered the lethal one from.
RecoveryHasReturnCell ==
    check_for_death(env_grid, location)
        => (/\ path_stack # <<>>
            /\ ~check_for_death(env_grid, Last(path_stack))
            /\ kb[Last(path_stack).row][Last(path_stack).col].visited
            /\ direction_towards(Last(path_stack), location) # None)

\* C21 witness: a recovery turn has popped the stack and put the agent on
\* the visited, non-lethal cell next to the one it died on
RecoveryHasReturnCellWitness ==
    /\ op = "step" /\ branch = "respawn" /\ exc = None
    /\ messages # <<>>
    /\ direction_towards(location, DiedAt) # None
    /\ kb[location.row][location.col].visited
    /\ ~check_for_death(env_grid, location)

\* the simulator's cell under a belief cell holds a pit (a wumpus); the
\* belief cells around the cave lie over no cell
PitAt(l) == l \in Playable /\ env_grid[l.row - 1][l.col - 1].has_pit

WumpusAt(l) == l \in Playable /\ env_grid[l.row - 1][l.col - 1].has_wumpus

\* C22: the belief grid is sound.  A cell flagged visited or safe holds
\* neither pit nor wumpus, a cell with no_pit_for_sure no pit, a cell with
\* no_wumpus_for_sure no wumpus, and a cell flagged unsafe a pit or a wumpus.
BeliefSound ==
    \A l \in BeliefCells :
        LET cell == kb[l.row][l.col]
        IN  /\ (cell.visited \/ cell.safe) => (~PitAt(l) /\ ~WumpusAt(l))
            /\ cell.no_pit_for_sure => ~PitAt(l)
            /\ cell.no_wumpus_for_sure => ~WumpusAt(l)
            /\ cell.unsafe => (PitAt(l) \/ WumpusAt(l))

\* C22 witness: after a recovery turn the belief grid holds the unsafe cell
\* of the death, over a hazard, among visited cells
BeliefSoundWitness ==
    /\ op = "step" /\ branch = "respawn" /\ exc = None
    /\ \E l \in BeliefCells : kb[l.row][l.col].unsafe /\ (PitAt(l) \/ WumpusAt(l))
    /\ \E l \in BeliefCells : kb[l.row][l.col].visited /\ l # location

\* the belief grid the first-visit block of update_with_percept (lines
\* 88-96) makes of grid with the cues sensed at loc
FirstVisitUpdate(grid, env, loc) ==
    LET marked == mark_current_as_visited_and_safe(grid, loc)
    IN  IF grid[loc.row][loc.col].visited THEN grid
        ELSE apply_breeze_and_stench(marked, get_valid_adjacent_cells(marked, loc),
                                     sense(env, loc))

\* a turn on which the policy, its belief brought up to date, moves FORWARD
\* onto a lethal cell
ForwardIntoDeath ==
    /\ ~is_game_over
    /\ ~check_for_death(env_grid, location)
    /\ ~has_gold /\ ~sense(env_grid, location).glitter
    /\ ~is_bump /\ ~is_scream
    /\ get_exploration_action(FirstVisitUpdate(kb, env_grid, location), location, direction)
           = "FORWARD"
    /\ is_valid_location(move(location, direction))
    /\ check_for_death(env_grid, move(location, direction))

\* C24: deferred death.  A turn that moves the agent FORWARD onto a lethal
\* cell ends with the agent on that cell, is_alive false and the cell not
\* visited; a step that begins on a lethal cell is a recovery turn that
\* changes the belief grid by the unsafe mark alone and takes no action; and
\* after every step is_alive is false exactly when the location is lethal.
DeferredDeath ==
    [][op' = "step"
       => (/\ ForwardIntoDeath
                => (/\ exc' = None
                    /\ location' = move(location, direction)
                    /\ ~is_alive'
                    /\ ~kb'[location'.row][location'.col].visited)
           /\ (~is_game_over /\ check_for_death(env_grid, location))
                => (/\ branch' = "respawn"
                    /\ kb' = mark_unsafe(kb, location)
                    /\ UNCHANGED <<score, direction, has_gold, has_arrow>>)
           /\ is_alive' = ~check_for_death(env_grid', location'))]_vars

\* C30: on a turn whose percept carries the bump of the turn before, the
\* turn completes, the belief cell ahead of the agent is a wall with both
\* counters 0, no other belief cell changes, and the exploration action
\* chosen from there is not FORWARD into that cell.
CollisionMarksWall ==
    [][(/\ op' = "step"
        /\ ~is_game_over
        /\ ~check_for_death(env_grid, location)
        /\ is_bump)
       => LET w == move(location, direction)
          IN  /\ exc' = None
              /\ kb'[w.row][w.col].wall
              /\ kb'[w.row][w.col].possible_pit = 0
              /\ kb'[w.row][w.col].possible_wumpus = 0
              /\ SameOutside(kb, kb', {w})
              /\ get_exploration_action(kb', location', direction') = "FORWARD"
                    => move(location', direction') # w]_vars

(***************************************************************************)
(* Further properties of a game played by direct calls (specification      *)
(* SpecPlay).                                                              *)
(***************************************************************************)
\* what the policy can return
PolicyActions == {"FORWARD", "TURN_RIGHT", "GRAB_GOLD", "CLIMB", None}

\* C34: the policy returns FORWARD, TURN_RIGHT, GRAB_GOLD, CLIMB or nothing,
\* whatever the percept, so that in a game the arrow is never used: has_arrow
\* stays true, no scream is reported, every wumpus stays where it is in the
\* environment grid and no unsafe mark is taken back.
NeverShoots ==
    [][/\ op' = "policy" => ret' \in PolicyActions
       /\ \A percept \in PerceptValues :
             decide(percept, kb', location', direction', has_gold', path_stack').action
                 \in PolicyActions
       /\ has_arrow'
       /\ ~is_scream'
       /\ op' = "process_action" => ~ret'[3]
       /\ \A l \in Playable : WumpusAt(l)' = WumpusAt(l)
       /\ \A l \in BeliefCells : kb[l.row][l.col].unsafe => kb'[l.row][l.col].unsafe]_vars

\* C34 witness: the policy has chosen a move or a turn next to a cell that
\* is marked unsafe and holds the wumpus, with the arrow still in hand
NeverShootsWitness ==
    /\ op = "policy"
    /\ ret \in {"FORWARD", "TURN_RIGHT"}
    /\ has_arrow
    /\ WumpusAt(move(location, direction))
    /\ kb[move(location, direction).row][move(location, direction).col].unsafe
    /\ kb[move(location, direction).row][move(location, direction).col].possible_wumpus = 0

\* how many of the messages of _process_action carry one of the texts
Count(texts) ==
    Cardinality({i \in DOMAIN messages :
                    "step" \in DOMAIN messages[i] /\ messages[i].text \in texts})

\* the actions paid for, were the score 1000 for the gold grabbed, less
\* 1000 for every death, less 1 for every action carried out
Paid == 1000 * Count({"gold"}) - 1000 * Count({"wumpus", "pit"}) - score

\* C35: score accounting.  Every action carried out changes the score by
\* -1, and by a further -1000 when a FORWARD ends on a pit or wumpus cell
\* and a further +1000 when GRAB_GOLD succeeds; a death recovery and a
\* decision leave the score alone; so the score is always 1000 for the gold
\* grabbed, less one per action carried out, less 1000 per death.
ScoreAccounting ==
    [][/\ op' = "process_action"
            => /\ score' = score - 1
                     - (IF arg' = "FORWARD" /\ location' # location
                           /\ check_for_death(env_grid', location') THEN 1000 ELSE 0)
                     + (IF arg' = "GRAB_GOLD" /\ ret'[1] THEN 1000 ELSE 0)
               /\ Paid' = Paid + 1
       /\ op' # "process_action" => (score' = score /\ Paid' = Paid)
       /\ Paid' >= 0]_vars

\* C35 witness: the agent has died once, been put back, and grabbed the
\* gold: the score is what the actions cost
ScoreAccountingWitness ==
    /\ op = "process_action" /\ arg = "GRAB_GOLD"
    /\ has_gold
    /\ Count({"wumpus", "pit"}) = 1
    /\ Count({"gold"}) = 1
    /\ score = 0 - Spent
    /\ Spent >= 3

(***************************************************************************)
(* The game run by repeated calls of step (specification SpecRun).         *)
(***************************************************************************)
\* the cells reached from the cells of S through hazard-free neighbours
RECURSIVE Flood(_, _)
Flood(grid, S) ==
    LET T == S \cup {l \in Playable :
                        /\ ~check_for_death(grid, l)
                        /\ \E m \in S : l \in Range(get_adjacent(m))}
    IN  IF T = S THEN S ELSE Flood(grid, T)

\* the gold lies on a cell reached from the origin through hazard-free cells
GoldReachable ==
    \E l \in Flood(env_grid, {Origin}) : env_grid[l.row - 1][l.col - 1].has_gold

\* a game before its first step
GameStart ==
    /\ op = "init"
    /\ location = Origin /\ path_stack = <<>> /\ kb = NewKnowledgeBase
    /\ ~has_gold /\ ~is_game_over /\ ~is_bump /\ ~is_scream
    /\ total_steps = 0

\* C23: eventual win.  A game started on a layout whose gold can be reached
\* through hazard-free cells ends in a win within the 200 turns.
EventualWin ==
    (GameStart /\ GoldReachable) ~> (is_victory /\ total_steps <= StepLimit)

(***************************************************************************)
(* Properties of the agent moved by direct calls (specification SpecMoves).*)
(***************************************************************************)
\* C26: the path stack changes in three ways only.  A move made by
\* _move_forward without the gold and outside a retreat pushes exactly the
\* cell left; a move with the gold or in a retreat, and a move refused at
\* the boundary, push nothing; the retreat decision pops one entry when it
\* answers FORWARD and nothing otherwise; a death recovery pops one entry;
\* turns, pick-up and escape leave the stack alone.
PathStackFrame ==
    [][/\ op' = "move_forward"
            => IF move(location, direction) \notin Playable
               THEN UNCHANGED <<location, path_stack>>
               ELSE /\ location' = move(location, direction)
                    /\ path_stack' = IF has_gold \/ is_backtracking THEN path_stack
                                     ELSE Append(path_stack, location)
       /\ op' = "get_backtrack_action"
            => path_stack' = IF ret' = "FORWARD" THEN Front(path_stack) ELSE path_stack
       /\ (op' = "step" /\ path_stack' # path_stack)
            => (branch' = "respawn" /\ path_stack' = Front(path_stack))
       /\ op' \notin {"move_forward", "get_backtrack_action", "step"}
            => UNCHANGED path_stack]_vars

\* C26 witness: a move made in a retreat, which pushed nothing, by an agent
\* whose earlier moves left entries on the stack
PathStackFrameWitness ==
    /\ op = "move_forward" /\ ret = None
    /\ is_backtracking /\ ~has_gold
    /\ path_stack # <<>>
    /\ Last(path_stack) # location

\* the belief cells read or written from loc: its own (visited and unsafe
\* marks), and its four neighbours (get_adjacent_cells,
\* _get_valid_adjacent_cells, the cell ahead of mark_wall)
Touched(loc) == {loc} \cup Range(get_adjacent(loc))

\* C33: the agent's location, and every entry of the path stack, has row
\* and column between 1 and 4, and every belief cell read or written from
\* there has row and column between 0 and 5.
InsideTheGrids ==
    /\ location.row \in 1..env_size /\ location.col \in 1..env_size
    /\ \A i \in DOMAIN path_stack :
          path_stack[i].row \in 1..env_size /\ path_stack[i].col \in 1..env_size
    /\ \A l \in Touched(location) :
          l.row \in 0..(kb_size - 1) /\ l.col \in 0..(kb_size - 1)

\* C33 witness: a move off the last row was rejected and the agent is still
\* on it, away from the first column
InsideTheGridsWitness ==
    /\ op = "move_forward" /\ ret = "bumped"
    /\ location.row = env_size /\ location.col > 1
    /\ direction = "SOUTH"

\* the heading reached from d by n turns to the right
RECURSIVE TurnedRight(_, _)
TurnedRight(d, n) == IF n = 0 THEN d ELSE turn_right(TurnedRight(d, n - 1))

\* the (row, col) steps of the four headings, as Direction.delta lists them
Steps == [NORTH |-> <<-1, 0>>, EAST |-> <<0, 1>>, SOUTH |-> <<1, 0>>, WEST |-> <<0, -1>>]

\* C36: spatial primitives.  A move made puts the agent one step of its
\* heading from where it was, and the location it left, kept on the path
\* stack, is what it was; a turn to the right takes the heading to the next
\* of NORTH, EAST, SOUTH, WEST, cyclically; four of them restore it; a turn
\* to the left undoes a turn to the right, and the other way round.
SpatialPrimitives ==
    [][/\ (op' = "move_forward" /\ ret' = None)
            => /\ location' = Location(location.row + Steps[direction][1],
                                        location.col + Steps[direction][2])
               /\ path_stack' # path_stack
                     => (Last(path_stack') = location /\ Front(path_stack') = path_stack)
       /\ op' = "turn_right"
            => DirectionIndex(direction') = (DirectionIndex(direction) % 4) + 1
       /\ op' = "turn_left"
            => /\ DirectionIndex(direction) = (DirectionIndex(direction') % 4) + 1
               /\ turn_right(direction') = direction
       /\ TurnedRight(direction', 4) = direction'
       /\ turn_left(turn_right(direction')) = direction'
       /\ turn_right(turn_left(direction')) = direction'
       /\ \A d \in Range(Direction) : move(location', d) \in Range(get_adjacent(location'))]_vars

\* C36 witness: away from the origin, a turn to the left has taken the
\* heading from NORTH round to WEST, the last of the order
SpatialPrimitivesWitness ==
    /\ op = "turn_left"
    /\ direction = "WEST"
    /\ location # Origin
    /\ path_stack # <<>>

(***************************************************************************)
(* Further properties of the agent's methods (specification SpecAgent).    *)
(***************************************************************************)
\* C25: the retreat peeks.  With an empty stack get_backtrack_action returns
\* no action; with the top of the stack next to the agent and the heading
\* not towards it, it returns TURN_RIGHT and leaves stack and backtracking
\* flag alone; with the heading towards it, it pops exactly that entry, sets
\* the flag and returns FORWARD.
RetreatPeeks ==
    [][op' = "get_backtrack_action"
       => (/\ path_stack = <<>>
                => (ret' = None /\ UNCHANGED <<path_stack, is_backtracking>>)
           /\ (path_stack # <<>> /\ Last(path_stack) \in Range(get_adjacent(location)))
                => IF move(location, direction) # Last(path_stack)
                   THEN ret' = "TURN_RIGHT" /\ UNCHANGED <<path_stack, is_backtracking>>
                   ELSE /\ ret' = "FORWARD"
                        /\ path_stack' = Front(path_stack)
                        /\ is_backtracking'
           /\ exc' = None
           /\ UNCHANGED <<location, direction>>)]_vars

\* C25 witness: the retreat answered TURN_RIGHT with the entry it looked at
\* still on the stack and the flag not set
RetreatPeeksWitness ==
    /\ op = "get_backtrack_action"
    /\ ret = "TURN_RIGHT"
    /\ path_stack # <<>>
    /\ move(location, direction) # Last(path_stack)
    /\ ~is_backtracking

\* the quarter-turns clockwise that take heading dir to heading target
TurnsTo(target, dir) == (DirectionIndex(target) - DirectionIndex(dir)) % 4

\* C27: realignment is clockwise and takes at most three turns.  The
\* exploration and the retreat procedure return FORWARD, TURN_RIGHT or no
\* action, never another turn; they return TURN_RIGHT exactly when 1 to 3
\* clockwise quarter-turns separate the heading from the heading towards
\* their target, and FORWARD when none does; a turn leaves belief grid,
\* location and path stack, hence the target, as they were and brings the
\* heading one quarter-turn closer to every heading it was off.
ClockwiseRealign ==
    [][/\ op' \in {"get_exploration_action", "get_backtrack_action"}
            => ret' \in {"FORWARD", "TURN_RIGHT", None}
       /\ (op' = "get_exploration_action" /\ get_adjacent_cells(kb, location) # <<>>)
            => LET target == get_adjacent_cells(kb, location)[1]
                   k == TurnsTo(direction_towards(location, target), direction)
               IN  /\ k <= 3
                   /\ (ret' = "TURN_RIGHT") <=> (k > 0)
                   /\ (ret' = "FORWARD") <=> (k = 0)
       /\ (/\ op' = "get_backtrack_action"
           /\ path_stack # <<>>
           /\ Last(path_stack) \in Range(get_adjacent(location)))
            => LET k == TurnsTo(direction_towards(location, Last(path_stack)), direction)
               IN  /\ k <= 3
                   /\ (ret' = "TURN_RIGHT") <=> (k > 0)
                   /\ (ret' = "FORWARD") <=> (k = 0)
       /\ op' = "turn_right"
            => (/\ UNCHANGED <<kb, location, path_stack>>
                /\ \A t \in Range(Direction) :
                      TurnsTo(t, direction) > 0
                        => TurnsTo(t, direction') = TurnsTo(t, direction) - 1)]_vars

\* C27 witness: a turn has brought the agent to face the candidate the
\* exploration picks, a cell of the cave: the next answer is FORWARD
ClockwiseRealignWitness ==
    /\ op = "turn_right"
    /\ get_exploration_action(kb, location, direction) = "FORWARD"
    /\ is_valid_location(move(location, direction))
    /\ direction # "NORTH"

\* C19: a call to decide_next_action leaves location, heading, gold flag,
\* backtracking flag, path stack and belief grid unchanged.
DecisionIsPure ==
    [][op' = "decide_next_action"
       => UNCHANGED <<location, direction, has_gold, is_backtracking, path_stack, kb>>]_vars

====
